---- MODULE Spec2Model ----
(***************************************************************************)
(* The request pipeline of src/index.js: the in-memory rate limiter        *)
(* (requestCounts, rateLimit), the response cache (cache, cacheMiddleware, *)
(* setCache), the cacheable route handlers and the shutdown handlers.      *)
(*                                                                         *)
(* Time is the value of Date.now(), counted in clock ticks.  The three     *)
(* tunables RATE_LIMIT_WINDOW, RATE_LIMIT_MAX and CACHE_TTL keep their     *)
(* names but are scaled down (source: 900000 ms, 100 requests, 300000 ms)  *)
(* with their order CACHE_TTL < RATE_LIMIT_WINDOW preserved.               *)
(***************************************************************************)
EXTENDS Integers, Sequences, FiniteSets, Bags, TLC

\* ------------------------------------------------------------------ bounds
RATE_LIMIT_WINDOW == 3
RATE_LIMIT_MAX == 2
CACHE_TTL == 2
MaxInflight == 2
\* the clock runs past the end of a window, or of a freshness period
MaxTime == RATE_LIMIT_WINDOW + 1
CacheMaxTime == CACHE_TTL + 1
\* rate limiter evaluations recorded in history
MaxRequests == RATE_LIMIT_MAX + 2
\* the same for one client that keeps retrying
MaxRetryRequests == RATE_LIMIT_MAX + 4
\* the values a handler's Math.random() calls can add up to
MaxRandom == 2

\* ------------------------------------------------------------- JS values
Undefined == "<undefined>"

Truthy(x) == x \notin {Undefined, ""}

\* a || b || c
Or3(a, b, c) == IF Truthy(a) THEN a ELSE IF Truthy(b) THEN b ELSE c

\* Map.prototype.has / get / set on a Map modelled as a function
MapHas(m, k) == k \in DOMAIN m

MapSet(m, k, v) == [x \in (DOMAIN m) \cup {k} |-> IF x = k THEN v ELSE m[x]]

EmptyMap == [x \in {} |-> 0]

\* ------------------------------------------------------------ environment
\* process.env as read by rateLimit
Envs ==
  { [NODE_ENV |-> "development", RENDER |-> Undefined],
    [NODE_ENV |-> "production",  RENDER |-> Undefined],
    [NODE_ENV |-> "production",  RENDER |-> "true"] }

\* --------------------------------------------------------------- requests
\* What rateLimit reads of a request: req.ip, req.connection.remoteAddress and
\* the x-forwarded-for header.
Origin(ip, remote, xff) == [ip |-> ip, remoteAddress |-> remote, xff |-> xff]

OriginA == Origin("10.0.0.1", "10.0.0.1", Undefined)
OriginB == Origin("10.0.0.2", "10.0.0.2", Undefined)

Origins == {OriginA, OriginB}

\* one address behind two different x-forwarded-for headers, a request with no
\* address and a header, and two requests with none of the three
OriginProxied1 == Origin("10.0.0.1", "10.0.0.1", "1.1.1.1")
OriginProxied2 == Origin("10.0.0.1", "10.0.0.1", "2.2.2.2")
OriginHeaderOnly == Origin(Undefined, Undefined, "1.1.1.1")
OriginRemoteOnly == Origin(Undefined, "10.0.0.1", "2.2.2.2")
OriginNone == Origin(Undefined, Undefined, Undefined)
OriginEmpty == Origin("", Undefined, Undefined)

IdentityOrigins ==
  {OriginProxied1, OriginProxied2, OriginHeaderOnly, OriginRemoteOnly, OriginNone, OriginEmpty}

\* req.originalUrl: the path and the query string as sent, parameter order kept
Url(path, query) == [path |-> path, query |-> query]

UrlHash    == Url("/tools/hash", << <<"text", "abc">> >>)
UrlHashNoText == Url("/tools/hash", << >>)
UrlHashBadAlg == Url("/tools/hash", << <<"text", "abc">>, <<"algorithm", "nope">> >>)
UrlChat    == Url("/ai/chatgpt", << <<"text", "hi">> >>)
UrlHealth  == Url("/health", << >>)
UrlRandom  == Url("/random/number", << >>)
UrlRandomBad == Url("/random/number", << <<"min", "9">>, <<"max", "3">> >>)

\* two requests that differ only in the order of their parameters
UrlHashMd5 == Url("/tools/hash", << <<"text", "abc">>, <<"algorithm", "md5">> >>)
UrlHashMd5Swapped == Url("/tools/hash", << <<"algorithm", "md5">>, <<"text", "abc">> >>)

\* the requests to the cached routes: answered 200, 400 and 500
Urls == {UrlHash, UrlHashNoText, UrlHashBadAlg, UrlChat}

\* env            process.env, fixed when the process starts
\* up             the process has not exited
\* now            Date.now()
\* requestCounts  the rate limiter's Map: client identifier -> timestamps
\* cache          the cache Map: originalUrl -> {data, timestamp}
\* reqs           the bag of requests in flight between two steps of their handling
\* sent           the response written last
\* history        the outcomes of the rate limiter, oldest first (observer)
VARIABLES env, up, now, requestCounts, cache, reqs, sent, history

vars == <<env, up, now, requestCounts, cache, reqs, sent, history>>

\* ---------------------------------------------------------- rate limiter
\* variant: || where the source has &&
SkipRateLimitEither(e) == e.NODE_ENV = "production" \/ e.RENDER = "true"

\* process.env.NODE_ENV === 'production' && process.env.RENDER === 'true'
SkipRateLimit(e) == e.NODE_ENV = "production" /\ e.RENDER = "true"

\* variant: the header is looked at first
ClientIdHeaderFirst(o) == Or3(o.xff, o.ip, o.remoteAddress)

\* req.ip || req.connection.remoteAddress || req.headers['x-forwarded-for']
ClientId(o) == Or3(o.ip, o.remoteAddress, o.xff)

\* variant: >= where the source has >
InWindowInclusive(ts, windowStart) == ts >= windowStart

\* variant: a timestamp stops counting one tick early
InWindowShort(ts, windowStart) == ts > windowStart + 1

\* variant: a window twice as long
InWindowLong(ts, windowStart) == ts > windowStart - RATE_LIMIT_WINDOW

\* requests.filter(timestamp => timestamp > windowStart)
InWindow(ts, windowStart) == ts > windowStart

RecentRequests(requests, t) ==
  SelectSeq(requests, LAMBDA ts : InWindow(ts, t - RATE_LIMIT_WINDOW))

\* requestCounts.get(ip) after the has/set of lines 29-31
StoredRequests(rc, ip) == IF MapHas(rc, ip) THEN rc[ip] ELSE << >>

\* variant: > where the source has >=
OverLimitLate(recent) == Len(recent) > RATE_LIMIT_MAX

\* recentRequests.length >= RATE_LIMIT_MAX
OverLimit(recent) == Len(recent) >= RATE_LIMIT_MAX

\* variant: the rejection branch falls through to the push (a missing return)
RateLimitResultFallsThrough(e, rc, o, t) ==
  IF SkipRateLimit(e)
  THEN [next |-> TRUE, status |-> 0, counted |-> FALSE, map |-> rc]
  ELSE LET ip == ClientId(o)
           created == IF MapHas(rc, ip) THEN rc ELSE MapSet(rc, ip, << >>)
           recent == RecentRequests(created[ip], t)
       IN [next |-> TRUE, status |-> IF OverLimit(recent) THEN 429 ELSE 0,
           counted |-> TRUE, map |-> MapSet(created, ip, Append(recent, t))]

\* variant: now is pushed onto the stored array, which is never pruned
RateLimitResultNoPrune(e, rc, o, t) ==
  IF SkipRateLimit(e)
  THEN [next |-> TRUE, status |-> 0, counted |-> FALSE, map |-> rc]
  ELSE LET ip == ClientId(o)
           created == IF MapHas(rc, ip) THEN rc ELSE MapSet(rc, ip, << >>)
           recent == RecentRequests(created[ip], t)
       IN IF OverLimit(recent)
          THEN [next |-> FALSE, status |-> 429, counted |-> FALSE, map |-> created]
          ELSE [next |-> TRUE, status |-> 0, counted |-> TRUE,
                map |-> MapSet(created, ip, Append(created[ip], t))]

\* variant: an admission writes back only its own timestamp
RateLimitResultLosesAdmissions(e, rc, o, t) ==
  IF SkipRateLimit(e)
  THEN [next |-> TRUE, status |-> 0, counted |-> FALSE, map |-> rc]
  ELSE LET ip == ClientId(o)
           created == IF MapHas(rc, ip) THEN rc ELSE MapSet(rc, ip, << >>)
           recent == RecentRequests(created[ip], t)
       IN IF OverLimit(recent)
          THEN [next |-> FALSE, status |-> 429, counted |-> FALSE, map |-> created]
          ELSE [next |-> TRUE, status |-> 0, counted |-> TRUE,
                map |-> MapSet(created, ip, << t >>)]

\* variant: over the limit, rateLimit returns without a response and without next()
RateLimitResultHangs(e, rc, o, t) ==
  IF SkipRateLimit(e)
  THEN [next |-> TRUE, status |-> 0, counted |-> FALSE, map |-> rc]
  ELSE LET ip == ClientId(o)
           created == IF MapHas(rc, ip) THEN rc ELSE MapSet(rc, ip, << >>)
           recent == RecentRequests(created[ip], t)
       IN IF OverLimit(recent)
          THEN [next |-> FALSE, status |-> 0, counted |-> FALSE, map |-> created]
          ELSE [next |-> TRUE, status |-> 0, counted |-> TRUE,
                map |-> MapSet(created, ip, Append(recent, t))]

\* variant: one quota for all clients together
RateLimitResultGlobalQuota(e, rc, o, t) ==
  IF SkipRateLimit(e)
  THEN [next |-> TRUE, status |-> 0, counted |-> FALSE, map |-> rc]
  ELSE LET ip == ClientId(o)
           created == IF MapHas(rc, ip) THEN rc ELSE MapSet(rc, ip, << >>)
           recent == RecentRequests(created[ip], t)
           all == {<<k, i>> \in (DOMAIN created) \X (1 .. RATE_LIMIT_MAX) :
                     i \in DOMAIN created[k]
                       /\ InWindow(created[k][i], t - RATE_LIMIT_WINDOW)}
       IN IF Cardinality(all) >= RATE_LIMIT_MAX
          THEN [next |-> FALSE, status |-> 429, counted |-> FALSE, map |-> created]
          ELSE [next |-> TRUE, status |-> 0, counted |-> TRUE,
                map |-> MapSet(created, ip, Append(recent, t))]

\* variant: the records of clients with no timestamp left in the window are deleted
RateLimitResultDropsIdle(e, rc, o, t) ==
  IF SkipRateLimit(e)
  THEN [next |-> TRUE, status |-> 0, counted |-> FALSE, map |-> rc]
  ELSE LET ip == ClientId(o)
           created == IF MapHas(rc, ip) THEN rc ELSE MapSet(rc, ip, << >>)
           recent == RecentRequests(created[ip], t)
           live == {k \in DOMAIN created : k = ip \/ RecentRequests(created[k], t) # << >>}
           kept == [k \in live |-> created[k]]
       IN IF OverLimit(recent)
          THEN [next |-> FALSE, status |-> 429, counted |-> FALSE, map |-> kept]
          ELSE [next |-> TRUE, status |-> 0, counted |-> TRUE,
                map |-> MapSet(kept, ip, Append(recent, t))]

\* variant: unshift where the source has push
RateLimitResultPrepends(e, rc, o, t) ==
  IF SkipRateLimit(e)
  THEN [next |-> TRUE, status |-> 0, counted |-> FALSE, map |-> rc]
  ELSE LET ip == ClientId(o)
           created == IF MapHas(rc, ip) THEN rc ELSE MapSet(rc, ip, << >>)
           recent == RecentRequests(created[ip], t)
       IN IF OverLimit(recent)
          THEN [next |-> FALSE, status |-> 429, counted |-> FALSE, map |-> created]
          ELSE [next |-> TRUE, status |-> 0, counted |-> TRUE,
                map |-> MapSet(created, ip, << t >> \o recent)]

\* variant: a rejected attempt is recorded too
RateLimitResultCountsRejects(e, rc, o, t) ==
  IF SkipRateLimit(e)
  THEN [next |-> TRUE, status |-> 0, counted |-> FALSE, map |-> rc]
  ELSE LET ip == ClientId(o)
           created == IF MapHas(rc, ip) THEN rc ELSE MapSet(rc, ip, << >>)
           recent == RecentRequests(created[ip], t)
       IN [next |-> ~OverLimit(recent), status |-> IF OverLimit(recent) THEN 429 ELSE 0,
           counted |-> ~OverLimit(recent),
           map |-> MapSet(created, ip, Append(recent, t))]

\* The outcome of rateLimit for a request of origin o at time t with the map rc
\* and environment e: whether next() is called, the status written, and the map
\* afterwards.
RateLimitResult(e, rc, o, t) ==
  IF SkipRateLimit(e)
  THEN [next |-> TRUE, status |-> 0, counted |-> FALSE, map |-> rc]
  ELSE LET ip == ClientId(o)
           created == IF MapHas(rc, ip) THEN rc ELSE MapSet(rc, ip, << >>)
           recent == RecentRequests(created[ip], t)
       IN IF OverLimit(recent)
          THEN [next |-> FALSE, status |-> 429, counted |-> FALSE, map |-> created]
          ELSE [next |-> TRUE, status |-> 0, counted |-> TRUE,
                map |-> MapSet(created, ip, Append(recent, t))]

\* ---------------------------------------------------------------- cache
\* variant: <= where the source has <
FreshInclusive(entry, t) == t - entry.timestamp <= CACHE_TTL

\* cached && Date.now() - cached.timestamp < CACHE_TTL
Fresh(entry, t) == t - entry.timestamp < CACHE_TTL

CacheHit(c, key, t) == MapHas(c, key) /\ Fresh(c[key], t)

\* variant: an entry that is still fresh is kept
setCacheKeepsFresh(c, key, data, t) ==
  IF CacheHit(c, key, t) THEN c ELSE MapSet(c, key, [data |-> data, timestamp |-> t])

\* variant: a store sweeps the stale entries of the other keys out of the map
setCacheEvictsStale(c, key, data, t) ==
  LET kept == {k \in DOMAIN c : Fresh(c[k], t)} \cup {key}
  IN [k \in kept |-> IF k = key THEN [data |-> data, timestamp |-> t] ELSE c[k]]

\* cache.set(key, { data, timestamp: Date.now() })
setCache(c, key, data, t) == MapSet(c, key, [data |-> data, timestamp |-> t])

\* --------------------------------------------------------------- routes
CachedRoutes == {"/tools/hash", "/ai/chatgpt", "/random/number"}

\* the cached routes whose handler draws from Math.random()
RandomRoutes == {"/random/number"}

\* req.query[name], the first occurrence of the parameter
RECURSIVE QueryGet(_, _)
QueryGet(q, name) ==
  IF q = << >> THEN Undefined
  ELSE IF Head(q)[1] = name THEN Head(q)[2] ELSE QueryGet(Tail(q), name)

WithDefault(v, d) == IF v = Undefined THEN d ELSE v

\* crypto.createHash(algorithm) throws for an algorithm the runtime lacks
HashAlgorithms == {"sha256", "md5"}

Digest(algorithm, text) == <<"digest", algorithm, text>>

ErrorBody(msg) == [success |-> FALSE, error |-> msg]

\* variant: setCache sits in the catch block as well
HashHandlerCachesFailure(u, t) ==
  LET text == QueryGet(u.query, "text")
      algorithm == WithDefault(QueryGet(u.query, "algorithm"), "sha256")
  IN IF ~Truthy(text)
     THEN [act |-> "error", status |-> 400, body |-> ErrorBody("Parameter text is required")]
     ELSE IF algorithm \notin HashAlgorithms
     THEN [act |-> "ok", status |-> 500, body |-> ErrorBody("Failed to generate hash")]
     ELSE [act |-> "ok", status |-> 200,
           body |-> [success |-> TRUE, text |-> text, algorithm |-> algorithm,
                     hash |-> Digest(algorithm, text), timestamp |-> t]]

\* The synchronous part of a route handler for url u at time t: an error
\* response, a success payload, or a suspension on the outbound call.
HashHandler(u, t) ==
  LET text == QueryGet(u.query, "text")
      algorithm == WithDefault(QueryGet(u.query, "algorithm"), "sha256")
  IN IF ~Truthy(text)
     THEN [act |-> "error", status |-> 400, body |-> ErrorBody("Parameter text is required")]
     ELSE IF algorithm \notin HashAlgorithms
     THEN [act |-> "error", status |-> 500, body |-> ErrorBody("Failed to generate hash")]
     ELSE [act |-> "ok", status |-> 200,
           body |-> [success |-> TRUE, text |-> text, algorithm |-> algorithm,
                     hash |-> Digest(algorithm, text), timestamp |-> t]]

ChatHandler(u, t) ==
  LET text == QueryGet(u.query, "text")
  IN IF ~Truthy(text)
     THEN [act |-> "error", status |-> 400, body |-> ErrorBody("Parameter text is required")]
     ELSE [act |-> "await", status |-> 0, body |-> Undefined]

\* The continuation of /ai/chatgpt after the outbound call settled
ChatPayload(u, apiOk, t) ==
  [success |-> TRUE, query |-> QueryGet(u.query, "text"),
   response |-> IF apiOk THEN "ai-response" ELSE "fallback-text",
   source |-> IF apiOk THEN "AI" ELSE "Fallback", timestamp |-> t]

\* parseInt on the decimal strings the requests carry
ParseInt(str) ==
  CASE str = "1" -> 1
    [] str = "3" -> 3
    [] str = "9" -> 9
    [] str = "100" -> 100

\* /random/number: rnd stands for what the Math.random() calls produced
RandomNumberHandler(u, t, rnd) ==
  LET minVal == ParseInt(WithDefault(QueryGet(u.query, "min"), "1"))
      maxVal == ParseInt(WithDefault(QueryGet(u.query, "max"), "100"))
  IN IF minVal >= maxVal
     THEN [act |-> "error", status |-> 400, body |-> ErrorBody("Min must be less than max")]
     ELSE [act |-> "ok", status |-> 200,
           body |-> [success |-> TRUE, range |-> <<minVal, maxVal>>,
                     numbers |-> rnd, timestamp |-> t]]

\* What Math.random() can produce for the handler of url u
RandomDraws(u) == IF u.path \in RandomRoutes THEN 1 .. MaxRandom ELSE {0}

HealthHandler(u, t) ==
  [act |-> "plain", status |-> 200, body |-> [status |-> "healthy", timestamp |-> t]]

NotFound(u, t) ==
  [act |-> "plain", status |-> 404, body |-> ErrorBody("Endpoint not found")]

Handler(u, t, rnd) ==
  IF u.path = "/tools/hash" THEN HashHandler(u, t)
  ELSE IF u.path = "/ai/chatgpt" THEN ChatHandler(u, t)
  ELSE IF u.path = "/random/number" THEN RandomNumberHandler(u, t, rnd)
  ELSE IF u.path = "/health" THEN HealthHandler(u, t)
  ELSE NotFound(u, t)

\* ------------------------------------------------------- request records
\* A request between two steps: pc is "route" (admitted, its route still to run)
\* or "await" (its handler waits for the outbound call); counted tells whether
\* rateLimit recorded it.
InFlight(pc, o, u, counted) == [pc |-> pc, origin |-> o, url |-> u, counted |-> counted]

Requests == BagToSet(reqs)

One(q) == SetToBag({q})

NoResponse ==
  [origin |-> Undefined, url |-> Undefined, status |-> 0, body |-> Undefined,
   counted |-> FALSE, lookup |-> FALSE, hit |-> FALSE, ran |-> FALSE,
   stored |-> FALSE, at |-> 0]

\* A response: res.status(status).json(body) for the request (o, u), with what
\* ran for that request: a counted rate limiter evaluation, cacheMiddleware
\* (lookup, hit), the route handler (ran) and setCache (stored).
Response(o, u, status, body, counted, lookup, hit, ran, stored, t) ==
  [origin |-> o, url |-> u, status |-> status, body |-> body,
   counted |-> counted, lookup |-> lookup, hit |-> hit, ran |-> ran,
   stored |-> stored, at |-> t]

InitOf(envs) ==
  /\ env \in envs
  /\ up = TRUE
  /\ now = 0
  /\ requestCounts = EmptyMap
  /\ cache = EmptyMap
  /\ reqs = EmptyBag
  /\ sent = NoResponse
  /\ history = << >>

Init == InitOf(Envs)

\* Date.now() moves on
Tick(maxTime) ==
  /\ up
  /\ now < maxTime
  /\ now' = now + 1
  /\ UNCHANGED <<env, up, requestCounts, cache, reqs, sent, history>>

\* A request arrives: the security middleware and app.use(rateLimit) run in the
\* same turn of the event loop.  An admitted request goes on to the later
\* middleware (express.static looks the path up on disk) and its route.
\* At most `logged` evaluations are recorded in history (0: none is).
Request(origins, urls, logged) ==
  /\ up
  /\ logged > 0 => Len(history) < logged
  /\ BagCardinality(reqs) < MaxInflight
  /\ \E o \in origins, u \in urls :
       LET res == RateLimitResult(env, requestCounts, o, now)
       IN /\ requestCounts' = res.map
          /\ reqs' = IF res.next
                     THEN reqs (+) One(InFlight("route", o, u, res.counted))
                     ELSE reqs
          /\ sent' = IF res.status # 0
                     THEN Response(o, u, res.status, ErrorBody("Too many requests"),
                                   FALSE, FALSE, FALSE, FALSE, FALSE, now)
                     ELSE sent
          /\ history' = IF logged > 0
                        THEN Append(history,
                               [ip |-> ClientId(o), t |-> now, counted |-> res.counted,
                                outcome |-> IF res.next THEN "Admit" ELSE "Reject",
                                status |-> res.status])
                        ELSE history
  /\ UNCHANGED <<env, up, now, cache>>

\* Route with a cacheMiddleware whose hit renews the entry it served
RouteHitRenews(q) ==
  /\ up
  /\ q.pc = "route"
  /\ \E rnd \in RandomDraws(q.url) :
     LET o == q.origin
         u == q.url
         c == q.counted
         cached == u.path \in CachedRoutes
         h == Handler(u, now, rnd)
     IN IF cached /\ CacheHit(cache, u, now)
        THEN /\ sent' = Response(o, u, 200, cache[u].data, c, TRUE, TRUE, FALSE, FALSE, now)
             /\ reqs' = reqs (-) One(q)
             /\ cache' = setCache(cache, u, cache[u].data, now)
        ELSE IF h.act = "await"
        THEN /\ reqs' = (reqs (-) One(q)) (+) One([q EXCEPT !.pc = "await"])
             /\ UNCHANGED <<sent, cache>>
        ELSE /\ sent' = Response(o, u, h.status, h.body, c, cached, FALSE, TRUE,
                                 h.act = "ok", now)
             /\ reqs' = reqs (-) One(q)
             /\ cache' = IF h.act = "ok" THEN setCache(cache, u, h.body, now) ELSE cache
  /\ UNCHANGED <<env, up, now, requestCounts, history>>

\* Route with a cacheMiddleware that deletes the expired entry it finds
RouteMissEvicts(q) ==
  /\ up
  /\ q.pc = "route"
  /\ \E rnd \in RandomDraws(q.url) :
     LET o == q.origin
         u == q.url
         c == q.counted
         cached == u.path \in CachedRoutes
         h == Handler(u, now, rnd)
         swept == IF cached /\ MapHas(cache, u)
                  THEN [k \in (DOMAIN cache) \ {u} |-> cache[k]]
                  ELSE cache
     IN IF cached /\ CacheHit(cache, u, now)
        THEN /\ sent' = Response(o, u, 200, cache[u].data, c, TRUE, TRUE, FALSE, FALSE, now)
             /\ reqs' = reqs (-) One(q)
             /\ cache' = cache
        ELSE IF h.act = "await"
        THEN /\ reqs' = (reqs (-) One(q)) (+) One([q EXCEPT !.pc = "await"])
             /\ cache' = swept
             /\ UNCHANGED sent
        ELSE /\ sent' = Response(o, u, h.status, h.body, c, cached, FALSE, TRUE,
                                 h.act = "ok", now)
             /\ reqs' = reqs (-) One(q)
             /\ cache' = IF h.act = "ok" THEN setCache(swept, u, h.body, now) ELSE swept
  /\ UNCHANGED <<env, up, now, requestCounts, history>>

\* Route with a cache key whose parameters are put in a fixed order
RouteCanonicalKey(q) ==
  /\ up
  /\ q.pc = "route"
  /\ \E rnd \in RandomDraws(q.url) :
     LET o == q.origin
         u == q.url
         c == q.counted
         cached == u.path \in CachedRoutes
         h == Handler(u, now, rnd)
         names == SelectSeq(<<"algorithm", "max", "min", "text">>,
                            LAMBDA n : QueryGet(u.query, n) # Undefined)
         key == Url(u.path, [i \in DOMAIN names |-> <<names[i], QueryGet(u.query, names[i])>>])
     IN IF cached /\ CacheHit(cache, key, now)
        THEN /\ sent' = Response(o, u, 200, cache[key].data, c, TRUE, TRUE, FALSE, FALSE, now)
             /\ reqs' = reqs (-) One(q)
             /\ cache' = cache
        ELSE IF h.act = "await"
        THEN /\ reqs' = (reqs (-) One(q)) (+) One([q EXCEPT !.pc = "await"])
             /\ UNCHANGED <<sent, cache>>
        ELSE /\ sent' = Response(o, u, h.status, h.body, c, cached, FALSE, TRUE,
                                 h.act = "ok", now)
             /\ reqs' = reqs (-) One(q)
             /\ cache' = IF h.act = "ok" THEN setCache(cache, key, h.body, now) ELSE cache
  /\ UNCHANGED <<env, up, now, requestCounts, history>>

\* Route with a cache key that carries the client's identifier
RoutePerClientKey(q) ==
  /\ up
  /\ q.pc = "route"
  /\ \E rnd \in RandomDraws(q.url) :
     LET o == q.origin
         u == q.url
         c == q.counted
         cached == u.path \in CachedRoutes
         h == Handler(u, now, rnd)
         key == Url(u.path, Append(u.query, <<"client", ClientId(o)>>))
     IN IF cached /\ CacheHit(cache, key, now)
        THEN /\ sent' = Response(o, u, 200, cache[key].data, c, TRUE, TRUE, FALSE, FALSE, now)
             /\ reqs' = reqs (-) One(q)
             /\ cache' = cache
        ELSE IF h.act = "await"
        THEN /\ reqs' = (reqs (-) One(q)) (+) One([q EXCEPT !.pc = "await"])
             /\ UNCHANGED <<sent, cache>>
        ELSE /\ sent' = Response(o, u, h.status, h.body, c, cached, FALSE, TRUE,
                                 h.act = "ok", now)
             /\ reqs' = reqs (-) One(q)
             /\ cache' = IF h.act = "ok" THEN setCache(cache, key, h.body, now) ELSE cache
  /\ UNCHANGED <<env, up, now, requestCounts, history>>

\* The route of an admitted request: cacheMiddleware on a cached route, then
\* the handler up to its response or its first await
Route(q) ==
  /\ up
  /\ q.pc = "route"
  /\ \E rnd \in RandomDraws(q.url) :
     LET o == q.origin
         u == q.url
         c == q.counted
         cached == u.path \in CachedRoutes
         h == Handler(u, now, rnd)
     IN IF cached /\ CacheHit(cache, u, now)
        THEN /\ sent' = Response(o, u, 200, cache[u].data, c, TRUE, TRUE, FALSE, FALSE, now)
             /\ reqs' = reqs (-) One(q)
             /\ cache' = cache
        ELSE IF h.act = "await"
        THEN /\ reqs' = (reqs (-) One(q)) (+) One([q EXCEPT !.pc = "await"])
             /\ UNCHANGED <<sent, cache>>
        ELSE /\ sent' = Response(o, u, h.status, h.body, c, cached, FALSE, TRUE,
                                 h.act = "ok", now)
             /\ reqs' = reqs (-) One(q)
             /\ cache' = IF h.act = "ok" THEN setCache(cache, u, h.body, now) ELSE cache
  /\ UNCHANGED <<env, up, now, requestCounts, history>>

\* variant: the fallback payload is sent but not stored
ResumeFallbackNotCached(q) ==
  /\ up
  /\ q.pc = "await"
  /\ \E apiOk \in BOOLEAN :
       LET data == ChatPayload(q.url, apiOk, now)
       IN /\ cache' = IF apiOk THEN setCache(cache, q.url, data, now) ELSE cache
          /\ sent' = Response(q.origin, q.url, 200, data,
                              q.counted, TRUE, FALSE, TRUE, apiOk, now)
          /\ reqs' = reqs (-) One(q)
  /\ UNCHANGED <<env, up, now, requestCounts, history>>

\* The outbound call of /ai/chatgpt settles, with a reply or an error, and the
\* handler runs to its end
Resume(q) ==
  /\ up
  /\ q.pc = "await"
  /\ \E apiOk \in BOOLEAN :
       LET data == ChatPayload(q.url, apiOk, now)
       IN /\ cache' = setCache(cache, q.url, data, now)
          /\ sent' = Response(q.origin, q.url, 200, data,
                              q.counted, TRUE, FALSE, TRUE, TRUE, now)
          /\ reqs' = reqs (-) One(q)
  /\ UNCHANGED <<env, up, now, requestCounts, history>>

\* variant: the signal handlers exit without cache.clear()
ShutdownKeepsCache ==
  /\ up
  /\ up' = FALSE
  /\ UNCHANGED <<env, now, requestCounts, cache, reqs, sent, history>>

\* process.on('SIGTERM' / 'SIGINT'): cache.clear(); process.exit(0)
Shutdown ==
  /\ up
  /\ cache' = EmptyMap
  /\ up' = FALSE
  /\ UNCHANGED <<env, now, requestCounts, reqs, sent, history>>

\* The whole pipeline
Next ==
  \/ Tick(CacheMaxTime)
  \/ Request({OriginA}, Urls, 0)
  \/ \E q \in Requests : Route(q)
  \/ \E q \in Requests : Resume(q)
  \/ Shutdown

Spec == Init /\ [][Next]_vars

\* The rate limiter under two clients, every evaluation recorded
NextLimiter ==
  \/ Tick(MaxTime)
  \/ Request(Origins, {UrlHealth}, MaxRequests)
  \/ \E q \in Requests : Route(q)

SpecLimiter == Init /\ [][NextLimiter]_vars

\* One client that retries, every evaluation recorded
NextRetry ==
  \/ Tick(MaxTime)
  \/ Request({OriginA}, {UrlHealth}, MaxRetryRequests)
  \/ \E q \in Requests : Route(q)

SpecRetry == Init /\ [][NextRetry]_vars

\* The cached route that draws random numbers
NextRandom ==
  \/ Tick(CacheMaxTime)
  \/ Request({OriginA}, {UrlRandom, UrlRandomBad}, 0)
  \/ \E q \in Requests : Route(q)

SpecRandom == Init /\ [][NextRandom]_vars

\* Requests to one cached route that differ only in the order of their parameters
NextKeys ==
  \/ Tick(CacheMaxTime)
  \/ Request({OriginA}, {UrlHash, UrlHashMd5, UrlHashMd5Swapped}, 0)
  \/ \E q \in Requests : Route(q)

SpecKeys == Init /\ [][NextKeys]_vars

\* Two clients, a cached route and the shutdown
NextRecords ==
  \/ Tick(RATE_LIMIT_WINDOW)
  \/ Request(Origins, {UrlHash}, 0)
  \/ \E q \in Requests : Route(q)
  \/ Shutdown

SpecRecords == Init /\ [][NextRecords]_vars

\* Requests that differ in what rateLimit reads of their origin, all inside one
\* tick of the clock
NextIdentity ==
  \/ Request(IdentityOrigins, {UrlHealth}, 0)
  \/ \E q \in Requests : Route(q)

SpecIdentity == Init /\ [][NextIdentity]_vars

\* ================================================================ claims
\* The configuration in which rateLimit passes every request on unexamined
RenderProduction == env.NODE_ENV = "production" /\ env.RENDER = "true"

Clients == {ClientId(o) : o \in Origins}

\* The rate limiter's outcomes for client c, oldest first
HistoryOf(c) == SelectSeq(history, LAMBDA e : e.ip = c)

LastEval == history[Len(history)]

\* How many of the timestamps of seq are strictly greater than t - RATE_LIMIT_WINDOW
CountSince(seq, t) ==
  Cardinality({i \in DOMAIN seq : seq[i] > t - RATE_LIMIT_WINDOW})

\* A step in which rateLimit examined a client (read its identifier and the clock)
Evaluated == history' # history /\ ~RenderProduction

\* the client's first RATE_LIMIT_MAX + 1 requests lie inside one window
BurstOf(h) ==
  /\ Len(h) >= RATE_LIMIT_MAX + 1
  /\ h[RATE_LIMIT_MAX + 1].t - h[1].t < RATE_LIMIT_WINDOW

BurstCut(h) ==
  /\ \A i \in 1 .. RATE_LIMIT_MAX : h[i].outcome = "Admit"
  /\ h[RATE_LIMIT_MAX + 1].outcome = "Reject"

\* C1 as stated: whenever a client's RATE_LIMIT_MAX + 1 requests fall inside one
\* window, the first RATE_LIMIT_MAX are admitted and the last one is rejected,
\* in every process.
C1_AsStated == \A c \in Clients : BurstOf(HistoryOf(c)) => BurstCut(HistoryOf(c))

\* C1 amended: unless the process runs with NODE_ENV=production and RENDER=true
\* (where rateLimit admits everything), a client's RATE_LIMIT_MAX + 1 requests
\* inside one window have the first RATE_LIMIT_MAX admitted and the last rejected.
C1_BurstRejected == ~RenderProduction => C1_AsStated

C1_Witness ==
  /\ ~RenderProduction
  /\ \E c \in Clients : BurstOf(HistoryOf(c)) /\ BurstCut(HistoryOf(c))

\* every window-length interval holds at most RATE_LIMIT_MAX requests of h:
\* request i + RATE_LIMIT_MAX comes no sooner than a full window after request i
Spaced(h) ==
  \A i \in DOMAIN h :
    i + RATE_LIMIT_MAX \in DOMAIN h => h[i + RATE_LIMIT_MAX].t - h[i].t >= RATE_LIMIT_WINDOW

\* C2: a client that never has more than RATE_LIMIT_MAX requests in any interval
\* of length RATE_LIMIT_WINDOW has every request admitted, whatever others do.
C2_WithinQuotaAdmitted ==
  \A c \in Clients :
    Spaced(HistoryOf(c)) => \A i \in DOMAIN HistoryOf(c) : HistoryOf(c)[i].outcome = "Admit"

C2_Witness ==
  /\ ~RenderProduction
  /\ \E c \in Clients :
       /\ Len(HistoryOf(c)) > RATE_LIMIT_MAX
       /\ Spaced(HistoryOf(c))
       /\ Len(history) > Len(HistoryOf(c))

\* C3: an evaluation that finds RATE_LIMIT_MAX or more stored timestamps of the
\* client inside the window rejects, and leaves requestCounts as it was.
C3_RejectLeavesMap ==
  [][ history' # history =>
        LET e == history'[Len(history')]
        IN CountSince(StoredRequests(requestCounts, e.ip), now) >= RATE_LIMIT_MAX
             => /\ e.outcome = "Reject"
                /\ sent'.status = 429
                /\ requestCounts' = requestCounts ]_vars

C3_Witness ==
  /\ history # << >>
  /\ LastEval.outcome = "Reject"
  /\ CountSince(StoredRequests(requestCounts, LastEval.ip), LastEval.t) >= RATE_LIMIT_MAX
  /\ \E c \in Clients : c # LastEval.ip /\ StoredRequests(requestCounts, c) # << >>

\* C4: an evaluation that finds fewer than RATE_LIMIT_MAX stored timestamps of the
\* client inside the window admits, and stores the in-window timestamps in their
\* order followed by now.
C4_AdmitAppends ==
  [][ Evaluated =>
        LET e == history'[Len(history')]
            stored == StoredRequests(requestCounts, e.ip)
        IN CountSince(stored, now) < RATE_LIMIT_MAX
             => /\ e.outcome = "Admit"
                /\ requestCounts'[e.ip] =
                     Append(SelectSeq(stored, LAMBDA ts : ts > now - RATE_LIMIT_WINDOW), now) ]_vars

\* an admission that pruned a stale timestamp and kept one
C4_Witness ==
  /\ history # << >>
  /\ LastEval.outcome = "Admit"
  /\ ~RenderProduction
  /\ \E i \in DOMAIN HistoryOf(LastEval.ip) :
       /\ HistoryOf(LastEval.ip)[i].outcome = "Admit"
       /\ HistoryOf(LastEval.ip)[i].t <= LastEval.t - RATE_LIMIT_WINDOW
  /\ Len(requestCounts[LastEval.ip]) >= 2
  /\ requestCounts[LastEval.ip][Len(requestCounts[LastEval.ip])] = LastEval.t

\* the scenario of C5: RATE_LIMIT_MAX requests at t0, one rejected a tick later,
\* the next one a tick after the window has passed
SlidScenario(h) ==
  /\ Len(h) >= RATE_LIMIT_MAX + 2
  /\ \A i \in 1 .. RATE_LIMIT_MAX : h[i].t = h[1].t
  /\ h[RATE_LIMIT_MAX + 1].t = h[1].t + 1
  /\ h[RATE_LIMIT_MAX + 1].outcome = "Reject"
  /\ h[RATE_LIMIT_MAX + 2].t = h[1].t + RATE_LIMIT_WINDOW + 1

\* C5: a timestamp more than RATE_LIMIT_WINDOW old does not count: a request is
\* admitted when fewer than RATE_LIMIT_MAX admissions of its client are at most a
\* window old, and the client rejected one tick after its burst is admitted one
\* tick after the window.
C5_SlidingWindow ==
  \A c \in Clients :
    LET h == HistoryOf(c)
    IN /\ \A i \in DOMAIN h :
            Cardinality({j \in 1 .. (i - 1) :
                           h[j].outcome = "Admit" /\ h[i].t - h[j].t <= RATE_LIMIT_WINDOW})
              < RATE_LIMIT_MAX
            => h[i].outcome = "Admit"
       /\ SlidScenario(h) => h[RATE_LIMIT_MAX + 2].outcome = "Admit"

C5_Witness ==
  \E c \in Clients :
    SlidScenario(HistoryOf(c)) /\ HistoryOf(c)[RATE_LIMIT_MAX + 2].outcome = "Admit"

\* A step in which the request q in flight was answered
Answered(q) == BagIn(q, reqs) /\ reqs' = reqs (-) One(q)

\* A step in which the request q in flight was suspended on its outbound call
Suspended(q) ==
  BagIn(q, reqs) /\ reqs' = (reqs (-) One(q)) (+) One([q EXCEPT !.pc = "await"])

\* A step in which the request q passed the rate limiter and went on
Admitted(q) == q.pc = "route" /\ reqs' = reqs (+) One(q)

AtQuota(c) == CountSince(StoredRequests(requestCounts, c), now) >= RATE_LIMIT_MAX

\* C6: a rejected request is answered 429 and nothing else runs for it: no
\* request of a client at its quota goes on to the routes, and the step that
\* writes the 429 runs neither cacheMiddleware, a handler nor setCache and leaves
\* the cache and the requests in flight as they were.
C6_RejectStopsPipeline ==
  /\ [][ \A q \in BagToSet(reqs') : Admitted(q) => ~AtQuota(ClientId(q.origin)) ]_vars
  /\ [][ (sent' # sent /\ sent'.status = 429)
           => /\ cache' = cache
              /\ reqs' = reqs
              /\ AtQuota(ClientId(sent'.origin))
              /\ ~sent'.lookup /\ ~sent'.hit /\ ~sent'.ran /\ ~sent'.stored ]_vars

\* a rejection while the cache holds an entry for the very url asked for
C6_Witness ==
  /\ sent.status = 429
  /\ MapHas(cache, sent.url)
  /\ Fresh(cache[sent.url], sent.at)
  /\ ~sent.lookup /\ ~sent.ran /\ ~sent.stored

\* every request past the rate limiter, and every response of the cache or of a
\* handler, belongs to a request that was counted against its client's quota
AllCounted ==
  /\ \A q \in Requests : q.counted
  /\ (sent.lookup \/ sent.ran) => sent.counted

\* C7 as stated: in every configuration of the environment each request is
\* evaluated by the rate limiter once before any cache lookup or handler, so a
\* request served from the cache has been counted against its client's quota.
C7_AsStated == AllCounted

\* C7 amended: every request passes through rateLimit once, before any cache
\* lookup or handler; unless NODE_ENV=production and RENDER=true it is counted
\* against its client's quota there, and in that configuration it is passed on
\* uncounted and requestCounts stays empty.
C7_LimiterFirst ==
  /\ ~RenderProduction => AllCounted
  /\ RenderProduction =>
       /\ requestCounts = EmptyMap
       /\ \A q \in Requests : ~q.counted
       /\ ~sent.counted

C7_Witness == ~RenderProduction /\ sent.hit /\ sent.counted

\* C8: cacheMiddleware answers with the stored payload exactly when the key has
\* an entry and now - timestamp < CACHE_TTL; otherwise the handler runs.
C8_LookupFreshOnly ==
  [][ \A q \in Requests :
        (q.pc = "route" /\ q.url.path \in CachedRoutes /\ (Answered(q) \/ Suspended(q)))
          => LET u == q.url
                 servable == u \in DOMAIN cache /\ now - cache[u].timestamp < CACHE_TTL
             IN IF servable
                THEN /\ Answered(q)
                     /\ sent'.hit /\ ~sent'.ran
                     /\ sent'.status = 200
                     /\ sent'.body = cache[u].data
                ELSE IF Answered(q)
                     THEN sent'.ran /\ ~sent'.hit
                     ELSE sent' = sent /\ cache' = cache ]_vars

\* a hit at the last instant of the freshness period
C8_Witness ==
  /\ sent.hit
  /\ MapHas(cache, sent.url)
  /\ sent.at - cache[sent.url].timestamp = CACHE_TTL - 1
  /\ sent.body = cache[sent.url].data

\* C9: a store sets the key's entry to the payload sent and the current time,
\* whatever was there, and touches no other key; a hit returns the data of the
\* entry written last.
C9_StoreOverwrites ==
  /\ [][ \A q \in Requests :
           (Answered(q) /\ sent'.stored)
             => cache' = [k \in (DOMAIN cache) \cup {q.url} |->
                            IF k = q.url
                            THEN [data |-> sent'.body, timestamp |-> now]
                            ELSE cache[k]] ]_vars
  /\ [][ \A q \in Requests :
           (Answered(q) /\ sent'.hit) => sent'.body = cache[q.url].data ]_vars

\* a store next to another key's entry
C9_Witness ==
  /\ sent.stored
  /\ MapHas(cache, sent.url)
  /\ cache[sent.url] = [data |-> sent.body, timestamp |-> sent.at]
  /\ \E k \in DOMAIN cache : k # sent.url

\* C10: a request answered 400 or 500 by its handler stores nothing and leaves
\* the cache as it was; every cached payload is one a handler sent with success.
C10_ErrorsNotCached ==
  /\ [][ \A q \in Requests :
           (Answered(q) /\ sent'.status \in {400, 500})
             => (cache' = cache /\ ~sent'.stored) ]_vars
  /\ [](\A k \in DOMAIN cache : cache[k].data.success = TRUE)

\* a failed request whose url has no entry while another url has one
C10_Witness ==
  /\ sent.status = 500
  /\ sent.ran
  /\ ~MapHas(cache, sent.url)
  /\ cache # EmptyMap

\* C11: a route whose handler draws random values is not served from the cache:
\* every request to it that is answered 200 ran the generator and was not
\* answered with a stored payload.
C11_RandomNotCached ==
  (sent.status = 200 /\ sent.url.path \in RandomRoutes) => (sent.ran /\ ~sent.hit)

\* C12: on a cached route a request whose key has a fresh entry is answered
\* with the entry's payload, which is the payload sent by the request that
\* stored it, while the handler does not run and the cache stays as it was; on
\* a miss the handler runs, and when it succeeds the payload it sends is the
\* value it stores under the request's key.
C12_HitReplaysMissStores ==
  /\ [][ \A q \in Requests :
           (Answered(q) /\ sent'.hit)
             => /\ q.url \in DOMAIN cache
                /\ Fresh(cache[q.url], now)
                /\ sent'.status = 200
                /\ sent'.body = cache[q.url].data
                /\ ~sent'.ran /\ ~sent'.stored
                /\ cache' = cache ]_vars
  /\ [][ \A q \in Requests :
           (Answered(q) /\ sent'.lookup /\ ~sent'.hit)
             => /\ sent'.ran
                /\ (sent'.status = 200) = sent'.stored
                /\ sent'.stored => /\ q.url \in DOMAIN cache'
                                    /\ cache'[q.url].data = sent'.body ]_vars
  /\ [][ \A k \in DOMAIN cache' :
           (k \notin DOMAIN cache \/ cache'[k] # cache[k])
             => (sent'.stored /\ sent'.url = k /\ sent'.body = cache'[k].data) ]_vars

\* a hit, some time after the entry was stored by a request that awaited its
\* outbound call
C12_Witness ==
  /\ sent.hit /\ ~sent.ran /\ ~sent.stored
  /\ sent.url = UrlChat
  /\ MapHas(cache, sent.url)
  /\ cache[sent.url].data = sent.body
  /\ cache[sent.url].timestamp < sent.at

\* The requests in flight, with their multiplicity, that missed on key k and
\* are inside their handler, which has not stored yet
Executing(k) ==
  LET missed == {q \in Requests : q.pc = "await" /\ q.url = k}
      RECURSIVE Sum(_)
      Sum(S) == IF S = {} THEN 0
                ELSE LET q == CHOOSE x \in S : TRUE
                     IN CopiesIn(q, reqs) + Sum(S \ {q})
  IN Sum(missed)

\* C13: the lookup, handler and store of one request on a key are never
\* interleaved with those of another request on the same key: at no time have
\* two requests for one key both missed and both entered the handler while
\* neither has stored.
C13_NoInterleaving == \A k \in Urls : Executing(k) <= 1

\* The times, oldest first, of the requests of client c that the rate limiter
\* admitted and that are still inside the window at time t
AdmittedInWindow(c, t) ==
  LET adm == SelectSeq(HistoryOf(c),
                       LAMBDA e : e.outcome = "Admit" /\ e.t > t - RATE_LIMIT_WINDOW)
  IN [i \in DOMAIN adm |-> adm[i].t]

\* The stored timestamps of client c that are inside the window at time t
StoredInWindow(c, t) ==
  SelectSeq(StoredRequests(requestCounts, c), LAMBDA ts : ts > t - RATE_LIMIT_WINDOW)

\* C14: an evaluation of the rate limiter is one step, so whatever the order in
\* which the requests of the clients arrive, no admission is lost or counted
\* twice: the stored sequence of a client holds, inside the window, exactly one
\* timestamp for each of its admitted requests, and right after an evaluation
\* of the client it holds nothing else.
C14_OneTimestampPerAdmission ==
  /\ [](~RenderProduction =>
          \A c \in Clients : StoredInWindow(c, now) = AdmittedInWindow(c, now))
  /\ [][ \A c \in Clients :
           (Evaluated /\ history'[Len(history')].ip = c)
             => StoredRequests(requestCounts, c)' = AdmittedInWindow(c, now)' ]_vars

\* a client holding RATE_LIMIT_MAX admissions in the window, after an older
\* admission of its own has left the window and another client was served in
\* between
C14_Witness ==
  /\ ~RenderProduction
  /\ \E c \in Clients :
       /\ Len(StoredInWindow(c, now)) = RATE_LIMIT_MAX
       /\ \E i, j, k \in DOMAIN history :
            /\ i < j /\ j < k
            /\ history[i].ip = c /\ history[j].ip # c /\ history[k].ip = c
            /\ history[i].outcome = "Admit"
            /\ history[i].t <= now - RATE_LIMIT_WINDOW
            /\ history[j].outcome = "Admit"

\* C15: the SIGTERM and SIGINT handlers clear the cache: after the clear no key
\* that had an entry has one, so a lookup of it at any time misses, and nothing
\* is stored afterwards.
C15_ClearMisses ==
  /\ [][ (up /\ ~up')
           => \A k \in DOMAIN cache :
                \A t \in now .. CacheMaxTime : ~CacheHit(cache', k, t) ]_vars
  /\ [](~up => \A k \in Urls : \A t \in now .. CacheMaxTime : ~CacheHit(cache, k, t))

\* the process was stopped right after a payload was stored, with a request
\* still in flight
C15_Witness ==
  /\ ~up
  /\ sent.stored
  /\ now - sent.at < CACHE_TTL
  /\ ~MapHas(cache, sent.url)
  /\ reqs # EmptyBag

\* C16: every invocation of rateLimit ends in exactly one of two ways: Admit,
\* where next() is called once (one more request goes on to the routes) and
\* the limiter writes no response, or Reject, where 429 is written and next()
\* is not called.
C16_AdmitXorReject ==
  [][ history' # history =>
        LET e == history'[Len(history')]
        IN \/ /\ e.outcome = "Admit"
              /\ e.status = 0
              /\ BagCardinality(reqs') = BagCardinality(reqs) + 1
              /\ sent' = sent
           \/ /\ e.outcome = "Reject"
              /\ e.status = 429
              /\ reqs' = reqs
              /\ sent'.status = 429 /\ sent'.at = now
              /\ sent'.origin \in Origins /\ ClientId(sent'.origin) = e.ip ]_vars

\* both outcomes have happened, the rejection last, while an admitted request is
\* still on its way to its route
C16_Witness ==
  /\ history # << >>
  /\ LastEval.outcome = "Reject" /\ LastEval.status = 429
  /\ \E i \in DOMAIN history : history[i].outcome = "Admit" /\ history[i].status = 0
  /\ sent.status = 429
  /\ reqs # EmptyBag

\* C17: right after an evaluation of client c at time now, admitted or
\* rejected, the sequence stored for c holds no timestamp <= now -
\* RATE_LIMIT_WINDOW.
C17_NoStaleAfterEvaluation ==
  [][ \A c \in Clients :
        (Evaluated /\ history'[Len(history')].ip = c /\ history'[Len(history')].t = now)
          => LET stored == StoredRequests(requestCounts', c)
             IN \A i \in DOMAIN stored : ~(stored[i] <= now - RATE_LIMIT_WINDOW) ]_vars

\* a client rejected once and admitted later, when one of its admissions had
\* left the window; nothing stale remains stored
C17_Witness ==
  /\ history # << >>
  /\ ~RenderProduction
  /\ LastEval.outcome = "Admit"
  /\ \E i, j \in DOMAIN history :
       /\ i < j
       /\ history[i].ip = LastEval.ip /\ history[j].ip = LastEval.ip
       /\ history[i].outcome = "Admit" /\ history[i].t <= LastEval.t - RATE_LIMIT_WINDOW
       /\ history[j].outcome = "Reject"
  /\ \A i \in DOMAIN requestCounts[LastEval.ip] :
       requestCounts[LastEval.ip][i] > LastEval.t - RATE_LIMIT_WINDOW

\* How many evaluations before the i-th of h recorded a timestamp that the i-th
\* finds less than a window old
CountedBefore(h, i) ==
  Cardinality({j \in 1 .. (i - 1) : h[j].counted /\ h[i].t - h[j].t < RATE_LIMIT_WINDOW})

\* the scenario of C18: RATE_LIMIT_MAX timestamps recorded at t, a request one
\* tick before t + RATE_LIMIT_WINDOW and the next one exactly at it
BoundaryScenario(h) ==
  /\ Len(h) >= RATE_LIMIT_MAX + 2
  /\ \A i \in 1 .. RATE_LIMIT_MAX : h[i].t = h[1].t /\ h[i].counted
  /\ h[RATE_LIMIT_MAX + 1].t = h[1].t + RATE_LIMIT_WINDOW - 1
  /\ h[RATE_LIMIT_MAX + 2].t = h[1].t + RATE_LIMIT_WINDOW

\* C18: the boundary of the window is strict: a timestamp recorded at t is
\* counted by every evaluation before t + RATE_LIMIT_WINDOW and not by one at
\* t + RATE_LIMIT_WINDOW or later, so a client with RATE_LIMIT_MAX admissions
\* recorded at t is rejected one tick before t + RATE_LIMIT_WINDOW and admitted
\* exactly at t + RATE_LIMIT_WINDOW.
C18_StrictBoundary ==
  \A c \in Clients :
    LET h == HistoryOf(c)
    IN /\ \A i \in DOMAIN h :
            (h[i].counted \/ h[i].outcome = "Reject")
              => (h[i].outcome = "Reject" <=> CountedBefore(h, i) >= RATE_LIMIT_MAX)
       /\ BoundaryScenario(h)
            => /\ h[RATE_LIMIT_MAX + 1].outcome = "Reject"
               /\ h[RATE_LIMIT_MAX + 2].outcome = "Admit"

C18_Witness ==
  \E c \in Clients :
    /\ BoundaryScenario(HistoryOf(c))
    /\ HistoryOf(c)[RATE_LIMIT_MAX + 1].outcome = "Reject"
    /\ HistoryOf(c)[RATE_LIMIT_MAX + 2].outcome = "Admit"
    /\ HistoryOf(c)[RATE_LIMIT_MAX + 2].counted

\* The oldest timestamp the r-th evaluation of h counted inside its window
OldestCounted(h, r) ==
  LET ts == {h[j].t : j \in {j \in 1 .. (r - 1) :
                                h[j].counted /\ h[r].t - h[j].t < RATE_LIMIT_WINDOW}}
  IN CHOOSE m \in ts : \A x \in ts : m <= x

\* i is the first request after the rejection r that comes once the oldest
\* timestamp counted at r has left the window
FirstAfterOldestLeft(h, r, i) ==
  /\ r < i
  /\ h[r].outcome = "Reject"
  /\ h[i].t - OldestCounted(h, r) >= RATE_LIMIT_WINDOW
  /\ \A k \in (r + 1) .. (i - 1) : h[k].t - OldestCounted(h, r) < RATE_LIMIT_WINDOW

\* C19: rejected attempts take no slot and do not postpone re-admission: the
\* stored sequence never holds more timestamps than the client has admissions,
\* and after a rejection the first request made once the oldest counted
\* timestamp has left the window is admitted, however many rejected requests
\* came in between.
C19_RetriesDoNotPostpone ==
  \A c \in Clients :
    LET h == HistoryOf(c)
    IN /\ Len(StoredRequests(requestCounts, c))
            <= Cardinality({i \in DOMAIN h : h[i].outcome = "Admit"})
       /\ \A r, i \in DOMAIN h :
            FirstAfterOldestLeft(h, r, i)
              => /\ h[i].outcome = "Admit"
                 /\ \A k \in (r + 1) .. (i - 1) : h[k].outcome = "Reject"

\* RATE_LIMIT_MAX admissions, then rejected retries at more than one instant,
\* then the admission
C19_Witness ==
  \E c \in Clients :
    LET h == HistoryOf(c)
    IN \E r, i \in DOMAIN h :
         /\ FirstAfterOldestLeft(h, r, i)
         /\ i >= r + 3
         /\ h[r + 1].t < h[r + 2].t
         /\ h[i].outcome = "Admit"
         /\ h[i].t - OldestCounted(h, r) = RATE_LIMIT_WINDOW

\* A step in which a handler stored a payload under key k
StoredUnder(k) ==
  /\ sent'.stored /\ sent'.url = k /\ sent'.at = now
  /\ BagCardinality(reqs') < BagCardinality(reqs)

\* C20: the entry of a key goes from absent to fresh by a store to the key,
\* from fresh to stale by the passing of time alone, back to fresh by a store
\* to the key, and to absent only by the clear of the whole cache; a lookup,
\* the expiry or a store to another key neither removes nor changes it.
C20_EntryLifecycle ==
  [][ \A k \in (DOMAIN cache) \cup (DOMAIN cache') :
        LET was == k \in DOMAIN cache
            is == k \in DOMAIN cache'
        IN /\ (~was /\ is) => (StoredUnder(k) /\ Fresh(cache'[k], now'))
           /\ (was /\ ~is) => (up /\ ~up' /\ cache' = EmptyMap)
           /\ (was /\ is /\ cache'[k] # cache[k])
                => (StoredUnder(k) /\ cache'[k].timestamp = now')
           /\ (was /\ is /\ Fresh(cache[k], now) /\ ~Fresh(cache'[k], now'))
                => /\ cache'[k] = cache[k]
                   /\ now' > now
                   /\ now' - cache[k].timestamp >= CACHE_TTL
           /\ (was /\ is /\ ~Fresh(cache[k], now) /\ Fresh(cache'[k], now'))
                => StoredUnder(k)
           /\ StoredUnder(k) => (is /\ Fresh(cache'[k], now')) ]_vars

\* a stale entry is still in the map right after a store to another key
C20_Witness ==
  /\ up
  /\ sent.stored /\ sent.at = now
  /\ MapHas(cache, sent.url) /\ Fresh(cache[sent.url], now)
  /\ \E k \in DOMAIN cache : k # sent.url /\ ~Fresh(cache[k], now)

\* C21: the lookup of cacheMiddleware leaves the cache map as it is: a hit, a
\* miss on an absent key and a miss on an expired entry change neither the set
\* of keys nor any entry; after a miss the map differs only if the handler
\* stored, and then only by the entry it stored.
C21_LookupReadsOnly ==
  [][ \A q \in Requests :
        (q.pc = "route" /\ q.url.path \in CachedRoutes /\ (Answered(q) \/ Suspended(q)))
          => IF Answered(q) /\ sent'.stored
             THEN /\ DOMAIN cache' = (DOMAIN cache) \cup {q.url}
                  /\ \A k \in (DOMAIN cache) \ {q.url} : cache'[k] = cache[k]
             ELSE cache' = cache ]_vars

\* a request waits on its outbound call after a miss, while the entry of its
\* key, expired, is still in the map and has served a hit before
C21_Witness ==
  /\ sent.hit /\ sent.url = UrlChat
  /\ MapHas(cache, UrlChat)
  /\ ~Fresh(cache[UrlChat], now)
  /\ cache[UrlChat].timestamp < sent.at
  /\ \E q \in Requests : q.pc = "await" /\ q.url = UrlChat

\* u1 and u2 name the same path and the same parameters, in whatever order
SameParams(u1, u2) ==
  /\ u1.path = u2.path
  /\ {u1.query[i] : i \in DOMAIN u1.query} = {u2.query[i] : i \in DOMAIN u2.query}

\* C22: the cache key is the url as sent, the same for the lookup and the store
\* of one request: a request is answered from the cache only when an entry
\* stands under its very url, and what it stores goes under that url, so a
\* request never hits the entry of one that differs in parameter order.
C22_KeyIsOriginalUrl ==
  /\ [][ \A q \in Requests :
           Answered(q) =>
             /\ sent'.hit <=> (q.url \in DOMAIN cache /\ Fresh(cache[q.url], now))
             /\ sent'.hit => sent'.body = cache[q.url].data
             /\ sent'.stored =>
                  /\ DOMAIN cache' = (DOMAIN cache) \cup {q.url}
                  /\ cache'[q.url] = [data |-> sent'.body, timestamp |-> now]
                  /\ \A k \in (DOMAIN cache) \ {q.url} : cache'[k] = cache[k] ]_vars
  /\ [](\A k \in DOMAIN cache : k \in {UrlHash, UrlHashMd5, UrlHashMd5Swapped})

\* a request ran its handler and stored while the entry of the request with the
\* same parameters in the other order was fresh
C22_Witness ==
  /\ sent.ran /\ sent.stored /\ ~sent.hit
  /\ \E k \in DOMAIN cache :
       /\ k # sent.url
       /\ SameParams(k, sent.url)
       /\ cache[k].timestamp < sent.at
       /\ Fresh(cache[k], sent.at)

\* C23: the quota is per client: an evaluation for one client leaves the record
\* of every other client as it was, and its outcome is decided by the client's
\* own stored timestamps and the time alone.
C23_PerClient ==
  [][ history' # history =>
        LET e == history'[Len(history')]
        IN /\ \A c \in Clients \ {e.ip} :
                /\ MapHas(requestCounts', c) <=> MapHas(requestCounts, c)
                /\ StoredRequests(requestCounts', c) = StoredRequests(requestCounts, c)
           /\ ~RenderProduction =>
                (e.outcome = "Reject"
                   <=> CountSince(StoredRequests(requestCounts, e.ip), now) >= RATE_LIMIT_MAX) ]_vars

\* a client is admitted while another one is at its quota
C23_Witness ==
  /\ history # << >>
  /\ ~RenderProduction
  /\ LastEval.outcome = "Admit"
  /\ LastEval.t = now
  /\ \E c \in Clients :
       /\ c # LastEval.ip
       /\ CountSince(StoredRequests(requestCounts, c), now) >= RATE_LIMIT_MAX
       /\ \E i \in DOMAIN HistoryOf(c) : HistoryOf(c)[i].outcome = "Reject"

\* C24: the record of a client is created by the first evaluation of its
\* identifier and stays: no step removes a key of requestCounts, and the
\* shutdown, which clears the cache, leaves requestCounts as it is.
C24_RecordsOnlyGrow ==
  /\ [][ (DOMAIN requestCounts) \subseteq (DOMAIN requestCounts') ]_vars
  /\ [][ \A q \in BagToSet(reqs') :
           Admitted(q) =>
             /\ ~RenderProduction => MapHas(requestCounts', ClientId(q.origin))
             /\ (DOMAIN requestCounts') \ (DOMAIN requestCounts) \subseteq {ClientId(q.origin)} ]_vars
  /\ [][ reqs' = reqs => DOMAIN requestCounts' = DOMAIN requestCounts ]_vars
  /\ [][ (up /\ ~up') => (requestCounts' = requestCounts /\ cache' = EmptyMap) ]_vars

\* after the shutdown that cleared a stored payload, both clients still have
\* their record, one of them with nothing left inside the window
C24_Witness ==
  /\ ~up
  /\ sent.stored
  /\ cache = EmptyMap
  /\ \A c \in Clients : MapHas(requestCounts, c)
  /\ \E c \in Clients : CountSince(requestCounts[c], now) = 0

\* C25: with a clock that never goes back, the sequence stored for each client
\* is in chronological order in every state: no timestamp is followed by an
\* earlier one.
C25_Chronological ==
  \A c \in DOMAIN requestCounts :
    \A i, j \in DOMAIN requestCounts[c] :
      i < j => requestCounts[c][i] <= requestCounts[c][j]

\* a record that lost its oldest timestamp to the window and holds two
\* admissions of different times
C25_Witness ==
  /\ history # << >>
  /\ \E c \in DOMAIN requestCounts :
       /\ Len(requestCounts[c]) >= 2
       /\ requestCounts[c][1] < requestCounts[c][Len(requestCounts[c])]
       /\ requestCounts[c][Len(requestCounts[c])] = now
       /\ \E i \in DOMAIN HistoryOf(c) :
            /\ HistoryOf(c)[i].outcome = "Admit"
            /\ HistoryOf(c)[i].t < requestCounts[c][1]

\* The identifier C26 describes for an origin: the direct address when there is
\* one, else the connection's remote address when there is one, else the
\* x-forwarded-for header, which is undefined when the header is absent
FirstAvailable(o) ==
  IF o.ip \notin {Undefined, ""} THEN o.ip
  ELSE IF o.remoteAddress \notin {Undefined, ""} THEN o.remoteAddress
  ELSE o.xff

\* C26: a request is counted and judged under the first available of its
\* direct address, its connection's remote address and its x-forwarded-for
\* header: an admission appends now to the record under that identifier and
\* touches no other, and a rejection finds that record at the quota; so the
\* header matters only without an address, and requests with none of the
\* three share the record under undefined.
C26_IdentifierChain ==
  /\ [][ \A q \in BagToSet(reqs') :
           (Admitted(q) /\ ~RenderProduction) =>
             LET id == FirstAvailable(q.origin)
             IN /\ MapHas(requestCounts', id)
                /\ requestCounts'[id] =
                     Append(SelectSeq(StoredRequests(requestCounts, id),
                                      LAMBDA ts : ts > now - RATE_LIMIT_WINDOW), now)
                /\ \A k \in DOMAIN requestCounts' :
                     k # id => (MapHas(requestCounts, k) /\ requestCounts'[k] = requestCounts[k]) ]_vars
  /\ [][ (sent' # sent /\ sent'.status = 429) =>
           /\ CountSince(StoredRequests(requestCounts, FirstAvailable(sent'.origin)), now)
                >= RATE_LIMIT_MAX
           /\ requestCounts' = requestCounts ]_vars
  /\ [](DOMAIN requestCounts \subseteq {"10.0.0.1", "1.1.1.1", Undefined})

\* a request is rejected on the quota filled under its address by a request
\* with another header, while the header-only and the address-less requests
\* have records of their own
C26_Witness ==
  /\ sent.status = 429
  /\ sent.origin = OriginProxied2
  /\ \E q \in Requests : q.origin = OriginProxied1
  /\ DOMAIN requestCounts = {"10.0.0.1", "1.1.1.1", Undefined}
  /\ Len(requestCounts[Undefined]) = RATE_LIMIT_MAX

\* C27: in every reachable state the sequence stored for a client holds at most
\* RATE_LIMIT_MAX timestamps.
C27_AtMostMaxStored ==
  \A c \in DOMAIN requestCounts : Len(requestCounts[c]) <= RATE_LIMIT_MAX

\* a record that is full again after a rejection and after more than
\* RATE_LIMIT_MAX admissions in all
C27_Witness ==
  \E c \in DOMAIN requestCounts :
    /\ Len(requestCounts[c]) = RATE_LIMIT_MAX
    /\ Cardinality({i \in DOMAIN HistoryOf(c) : HistoryOf(c)[i].outcome = "Admit"})
         > RATE_LIMIT_MAX
    /\ \E i \in DOMAIN HistoryOf(c) : HistoryOf(c)[i].outcome = "Reject"

\* How many requests of h were admitted in the interval (a, a + RATE_LIMIT_WINDOW]
AdmittedIn(h, a) ==
  Cardinality({i \in DOMAIN h :
                 h[i].outcome = "Admit" /\ h[i].t > a /\ h[i].t <= a + RATE_LIMIT_WINDOW})

\* C28 as stated: for every client and every instant a, at most RATE_LIMIT_MAX
\* of the client's requests are admitted in (a, a + RATE_LIMIT_WINDOW], in
\* every process.
C28_AsStated ==
  \A c \in Clients :
    \A a \in (0 - RATE_LIMIT_WINDOW) .. MaxTime :
      AdmittedIn(HistoryOf(c), a) <= RATE_LIMIT_MAX

\* C28 amended: unless the process runs with NODE_ENV=production and
\* RENDER=true (where rateLimit admits everything), at most RATE_LIMIT_MAX of a
\* client's requests are admitted in any interval (a, a + RATE_LIMIT_WINDOW].
C28_QuotaPerWindow == ~RenderProduction => C28_AsStated

\* an interval filled to the quota by admissions at its first and at its last
\* instant, with a rejection inside it
C28_Witness ==
  /\ ~RenderProduction
  /\ \E c \in Clients :
       LET h == HistoryOf(c)
       IN \E a \in 0 .. MaxTime :
            /\ AdmittedIn(h, a) = RATE_LIMIT_MAX
            /\ \E i, j, k \in DOMAIN h :
                 /\ h[i].outcome = "Admit" /\ h[i].t = a + 1
                 /\ h[j].outcome = "Admit" /\ h[j].t = a + RATE_LIMIT_WINDOW
                 /\ h[k].outcome = "Reject" /\ h[k].t > a /\ h[k].t <= a + RATE_LIMIT_WINDOW
            /\ \E i \in DOMAIN h : h[i].outcome = "Admit" /\ h[i].t <= a

\* The proxy routes, whose handler awaits a third-party call
ProxyRoutes == {"/ai/chatgpt"}

\* C29: on a cached proxy route the handler answers 200 with a success payload
\* whether the outbound call gave a reply or failed, and stores what it sent;
\* while the entry of a fallback payload is fresh, a request for the same url is
\* answered with that payload and no outbound call is made for it.
C29_FallbackCached ==
  /\ [][ \A q \in Requests :
           (q.pc = "await" /\ Answered(q)) =>
             /\ q.url.path \in ProxyRoutes
             /\ sent'.status = 200
             /\ sent'.body.success = TRUE
             /\ sent'.body.source \in {"AI", "Fallback"}
             /\ sent'.stored
             /\ MapHas(cache', q.url)
             /\ cache'[q.url] = [data |-> sent'.body, timestamp |-> now] ]_vars
  /\ [][ \A q \in Requests :
           ( /\ q.pc = "route" /\ q.url.path \in ProxyRoutes
             /\ MapHas(cache, q.url)
             /\ cache[q.url].data.source = "Fallback"
             /\ now - cache[q.url].timestamp < CACHE_TTL
             /\ reqs' # reqs /\ BagIn(q, reqs) /\ CopiesIn(q, reqs') < CopiesIn(q, reqs) )
             => /\ Answered(q)
                /\ sent'.hit /\ ~sent'.ran /\ ~sent'.stored
                /\ sent'.body = cache[q.url].data
                /\ cache' = cache ]_vars

\* a request answered from the cache with the fallback payload, at the last
\* instant of the entry's freshness
C29_Witness ==
  /\ sent.hit
  /\ sent.url = UrlChat
  /\ sent.body.source = "Fallback"
  /\ MapHas(cache, UrlChat)
  /\ cache[UrlChat].data = sent.body
  /\ sent.at - cache[UrlChat].timestamp = CACHE_TTL - 1
  /\ now = sent.at

\* C30: the cache is one for all clients: whether a request to a cached route
\* is answered from the cache, and with what, is decided by its url and the
\* time alone, so two admitted requests for one url at one time get the same
\* answer from the cache whoever sent them, and a payload stored for one client
\* is served to another.
C30_SharedByClients ==
  [][ \A q \in Requests :
        (q.pc = "route" /\ q.url.path \in CachedRoutes /\ Answered(q)) =>
          LET fresh == MapHas(cache, q.url) /\ now - cache[q.url].timestamp < CACHE_TTL
          IN /\ q.origin \in Origins
             /\ sent'.origin = q.origin
             /\ sent'.hit <=> fresh
             /\ fresh => (sent'.status = 200 /\ sent'.body = cache[q.url].data)
             /\ \A k \in DOMAIN cache' : k.path \in CachedRoutes /\ k = Url(k.path, k.query) ]_vars

\* a client's first request is answered with a payload that was stored before
\* it came, for the other client
C30_Witness ==
  /\ ~RenderProduction
  /\ sent.hit
  /\ sent.at < RATE_LIMIT_WINDOW
  /\ MapHas(cache, sent.url)
  /\ cache[sent.url].timestamp < sent.at
  /\ sent.body = cache[sent.url].data
  /\ MapHas(requestCounts, ClientId(sent.origin))
  /\ requestCounts[ClientId(sent.origin)] = << sent.at >>
  /\ \E c \in Clients :
       /\ c # ClientId(sent.origin)
       /\ MapHas(requestCounts, c)
       /\ requestCounts[c][1] <= cache[sent.url].timestamp

====
